---- MODULE Spec2Model ----
(***************************************************************************)
(* Inventory backend (src/index.js): the stock-change route, the direct    *)
(* product edit, the anomaly detectors of EnhancedAIAnomalyDetector and    *)
(* the detection triggers, over the Product, Transaction, Anomaly and      *)
(* Alert collections.                                                      *)
(*                                                                         *)
(* Time is counted in hours: Date.now() is `now`, a day is 24.             *)
(***************************************************************************)
EXTENDS Integers, Sequences, FiniteSets, TLC

VARIABLES
    products,       \* Product collection: id -> document
    transactions,   \* Transaction collection, in creation order
    anomalies,      \* Anomaly collection, in creation order (_id = index)
    alerts,         \* Alert collection, in creation order
    now,            \* Date.now(), in hours
    requests,       \* stock-change requests in flight: slot -> handler state
    passes,         \* detection triggers in flight: slot -> handler state
    disturbed,      \* history: product -> what other than sequential stock changes touched it
    quietPasses     \* history: triggers completed alone since the last product/ledger write

vars == <<products, transactions, anomalies, alerts, now, requests, passes,
          disturbed, quietPasses>>

----------------------------------------------------------------------------
(* Bounds of the model *)

MaxTransactions == 2    \* transactions the ledger may hold
MaxAnomalies == 3       \* anomalies the store may hold
MaxAlerts == 3          \* alerts the store may hold
MaxTime == 2            \* hours the clock may reach
QuietCap == 2           \* quietPasses counts up to here

----------------------------------------------------------------------------
(* Helpers *)

Abs(x) == IF x < 0 THEN -x ELSE x

Max(a, b) == IF a >= b THEN a ELSE b

Min(a, b) == IF a <= b THEN a ELSE b

Last(s) == s[Len(s)]

----------------------------------------------------------------------------
(* Documents *)

ProductOrder == <<"p1", "p2", "p3">>    \* the ids a store may hold, in natural order

MissingId == "p0"   \* a well-formed id that names no product

NullId == "null"    \* productId: null

ProductIds == DOMAIN products

\* Product.find({}) in natural order
ProductSeq == SelectSeq(ProductOrder, LAMBDA id : id \in ProductIds)

\* transactionSchema.type enum
TransactionTypes == {"sale", "restock", "adjustment", "expiry", "damage", "purchase"}

\* the types the stock route turns into a decrease
DecreaseTypes == {"sale", "expiry", "damage"}

NoDate == <<>>      \* expiryDate: null; a date t is <<t>>

IdleRequest ==
    [pc |-> "idle", productId |-> MissingId, quantity |-> 0, type |-> "",
     userId |-> "", previousQuantity |-> 0, quantityChange |-> 0,
     newQuantity |-> 0, transactionId |-> 0, status |-> 0, error |-> ""]

\* Transaction.find({productId}) in creation order
Ledger(pid) == SelectSeq(transactions, LAMBDA t : t.productId = pid)

\* requests other than r that hold a product document of pid they have not written back
InFlightOn(pid, r) ==
    {o \in DOMAIN requests \ {r} :
        /\ requests[o].pc \in {"saveTransaction", "saveProduct"}
        /\ requests[o].productId = pid}

----------------------------------------------------------------------------
(* POST /api/products/:id/stock *)

\* mutant: only a sale decreases
QuantityChange_SaleOnly(type, quantity) ==
    IF type = "sale" THEN -Abs(quantity) ELSE Abs(quantity)

\* quantityChange: the sign comes from the type, the size from |quantity|
QuantityChange(type, quantity) ==
    IF type \in DecreaseTypes THEN -Abs(quantity) ELSE Abs(quantity)

\* mutant: no clamp at zero
NewQuantity_NoClamp(previousQuantity, quantityChange) ==
    previousQuantity + quantityChange

\* newQuantity: floor-clamped at zero
NewQuantity(previousQuantity, quantityChange) ==
    Max(0, previousQuantity + quantityChange)

\* Transaction validation on save: type is required and of the enum
TransactionValid(type) == type \in TransactionTypes

\* Product.findById, the 404 answer, and the synchronous computation up to
\* the first write
StockFindProduct(r, pid, quantity, type, userId) ==
    /\ requests[r].pc = "idle"
    /\ IF pid \notin ProductIds
       THEN /\ requests' = [requests EXCEPT ![r] =
                   [IdleRequest EXCEPT !.pc = "done", !.productId = pid,
                        !.quantity = quantity, !.type = type, !.userId = userId,
                        !.status = 404, !.error = "Product not found"]]
            /\ UNCHANGED disturbed
       ELSE /\ Len(transactions) + Cardinality({o \in DOMAIN requests :
                    requests[o].pc = "saveTransaction"}) < MaxTransactions
            /\ requests' = [requests EXCEPT ![r] =
                   [IdleRequest EXCEPT !.pc = "saveTransaction", !.productId = pid,
                        !.quantity = quantity, !.type = type, !.userId = userId,
                        !.previousQuantity = products[pid].quantity,
                        !.quantityChange = QuantityChange(type, quantity),
                        !.newQuantity = NewQuantity(products[pid].quantity,
                                                    QuantityChange(type, quantity))]]
            /\ disturbed' = [disturbed EXCEPT ![pid] =
                   IF InFlightOn(pid, r) # {} THEN @ \cup {"overlap"} ELSE @]
    /\ UNCHANGED <<products, transactions, anomalies, alerts, now, passes, quietPasses>>

\* await transaction.save(): validation failure goes to the catch (400)
StockSaveTransaction(r) ==
    /\ requests[r].pc = "saveTransaction"
    /\ IF TransactionValid(requests[r].type)
       THEN /\ transactions' = Append(transactions,
                   [productId |-> requests[r].productId,
                    type |-> requests[r].type,
                    quantity |-> requests[r].quantityChange,
                    previousQuantity |-> requests[r].previousQuantity,
                    newQuantity |-> requests[r].newQuantity,
                    userId |-> requests[r].userId,
                    createdAt |-> now])
            /\ requests' = [requests EXCEPT ![r].pc = "saveProduct",
                                            ![r].transactionId = Len(transactions) + 1]
            /\ quietPasses' = 0
            /\ passes' = [d \in DOMAIN passes |-> [passes[d] EXCEPT !.alone = FALSE]]
       ELSE /\ requests' = [requests EXCEPT ![r].pc = "done", ![r].status = 400,
                                            ![r].error = "validation"]
            /\ UNCHANGED <<transactions, quietPasses, passes>>
    /\ UNCHANGED <<products, anomalies, alerts, now, disturbed>>

\* await transaction.save() rejected by the store: nothing written, 400
StockSaveTransactionFails(r) ==
    /\ requests[r].pc = "saveTransaction"
    /\ requests' = [requests EXCEPT ![r].pc = "done", ![r].status = 400,
                                    ![r].error = "store"]
    /\ UNCHANGED <<products, transactions, anomalies, alerts, now, passes,
                   disturbed, quietPasses>>

\* product.quantity = newQuantity; await product.save(); res.json(...)
\* (save writes the quantity path only when the assignment changed it)
StockSaveProduct(r) ==
    /\ requests[r].pc = "saveProduct"
    /\ products' = [products EXCEPT ![requests[r].productId].quantity =
           IF requests[r].newQuantity # requests[r].previousQuantity
           THEN requests[r].newQuantity ELSE @]
    /\ requests' = [requests EXCEPT ![r].pc = "done", ![r].status = 200]
    /\ quietPasses' = 0
    /\ passes' = [d \in DOMAIN passes |-> [passes[d] EXCEPT !.alone = FALSE]]
    /\ UNCHANGED <<transactions, anomalies, alerts, now, disturbed>>

\* variant: the rejected product.save() is answered like a successful one
StockSaveProductFails_ReportsSuccess(r) ==
    /\ requests[r].pc = "saveProduct"
    /\ requests' = [requests EXCEPT ![r].pc = "done", ![r].status = 200]
    /\ disturbed' = [disturbed EXCEPT ![requests[r].productId] = @ \cup {"fault"}]
    /\ UNCHANGED <<products, transactions, anomalies, alerts, now, passes, quietPasses>>

\* await product.save() rejected by the store (or the process stops there):
\* the transaction stays, the catch answers 400
StockSaveProductFails(r) ==
    /\ requests[r].pc = "saveProduct"
    /\ requests' = [requests EXCEPT ![r].pc = "done", ![r].status = 400,
                                    ![r].error = "store"]
    /\ disturbed' = [disturbed EXCEPT ![requests[r].productId] = @ \cup {"fault"}]
    /\ UNCHANGED <<products, transactions, anomalies, alerts, now, passes, quietPasses>>

\* the response is sent and the handler's locals are gone
StockRespond(r) ==
    /\ requests[r].pc = "done"
    /\ requests' = [requests EXCEPT ![r] = IdleRequest]
    /\ UNCHANGED <<products, transactions, anomalies, alerts, now, passes,
                   disturbed, quietPasses>>

----------------------------------------------------------------------------
(* PUT /api/products/:id with {quantity} (runValidators: quantity >= 0) *)

DirectEdit(pid, quantity) ==
    /\ pid \in ProductIds
    /\ quantity >= 0
    /\ products' = [products EXCEPT ![pid].quantity = quantity]
    /\ disturbed' = [disturbed EXCEPT ![pid] = @ \cup {"edit"}]
    /\ quietPasses' = 0
    /\ passes' = [d \in DOMAIN passes |-> [passes[d] EXCEPT !.alone = FALSE]]
    /\ UNCHANGED <<transactions, anomalies, alerts, now, requests>>

----------------------------------------------------------------------------
(* EnhancedAIAnomalyDetector: the detectors.  Each takes the product       *)
(* document of the pass's Product.find({}) and reads the Transaction and   *)
(* Anomaly collections as they are when it runs; each returns the          *)
(* candidates it pushes.                                                   *)

Hours(days) == days * 24

\* anomalySchema.type enum
AnomalyTypes ==
    {"low_stock", "unusual_pattern", "expiry_warning", "high_variance",
     "stock_discrepancy", "potential_theft", "unauthorized_access_pattern", "security"}

\* Math.ceil(a / b) for b > 0
CeilDiv(a, b) == -((-a) \div b)

RECURSIVE SumSeq(_)
SumSeq(s) == IF s = <<>> THEN 0 ELSE Head(s) + SumSeq(Tail(s))

\* Anomaly.findOne({productId, type, resolved: false})
ExistsUnresolved(pid, type) ==
    \E i \in DOMAIN anomalies :
        /\ anomalies[i].productId = pid
        /\ anomalies[i].type = type
        /\ ~anomalies[i].resolved

\* Anomaly.findOne({productId, type, resolved: false, createdAt: {$gte: since}})
ExistsUnresolvedSince(pid, type, since) ==
    \E i \in DOMAIN anomalies :
        /\ anomalies[i].productId = pid
        /\ anomalies[i].type = type
        /\ ~anomalies[i].resolved
        /\ anomalies[i].createdAt >= since

\* variant: the lookup skips resolved anomalies
ExistsSince_UnresolvedOnly(pid, type, since) ==
    \E i \in DOMAIN anomalies :
        /\ anomalies[i].productId = pid
        /\ anomalies[i].type = type
        /\ ~anomalies[i].resolved
        /\ anomalies[i].createdAt >= since

\* Anomaly.findOne({productId, type, createdAt: {$gte: since}}), resolved or not
ExistsSince(pid, type, since) ==
    \E i \in DOMAIN anomalies :
        /\ anomalies[i].productId = pid
        /\ anomalies[i].type = type
        /\ anomalies[i].createdAt >= since

\* Transaction.find({productId, createdAt: {$gte: since}}) in creation order
TransactionsSince(pid, since) ==
    SelectSeq(transactions, LAMBDA t : t.productId = pid /\ t.createdAt >= since)

LowStockSeverity(quantity) == IF quantity = 0 THEN "critical" ELSE "high"

\* variant: strictly below the minimum
LowStockTriggers_Strict(product) == product.quantity < product.minimumStock

LowStockTriggers(product) == product.quantity <= product.minimumStock

\* variant: without the look-up of an unresolved anomaly
detectLowStock_NoLookup(pid, product) ==
    IF LowStockTriggers(product)
    THEN <<[productId |-> pid, type |-> "low_stock",
            severity |-> LowStockSeverity(product.quantity),
            aiConfidence |-> 95,
            metadata |-> [currentStock |-> product.quantity,
                          minimumStock |-> product.minimumStock]]>>
    ELSE <<>>

detectLowStock(pid, product) ==
    IF LowStockTriggers(product) /\ ~ExistsUnresolved(pid, "low_stock")
    THEN <<[productId |-> pid, type |-> "low_stock",
            severity |-> LowStockSeverity(product.quantity),
            aiConfidence |-> 95,
            metadata |-> [currentStock |-> product.quantity,
                          minimumStock |-> product.minimumStock]]>>
    ELSE <<>>

DaysUntilExpiry(expiryDate) == CeilDiv(expiryDate - now, 24)

\* variant: without the lower bound
ExpiryTriggers_NoLowerBound(daysUntilExpiry) == daysUntilExpiry <= 30

ExpiryTriggers(daysUntilExpiry) == daysUntilExpiry <= 30 /\ daysUntilExpiry > 0

ExpirySeverity(daysUntilExpiry) == IF daysUntilExpiry <= 7 THEN "high" ELSE "medium"

detectExpiryWarnings(pid, product) ==
    IF /\ product.expiryDate # NoDate
       /\ ExpiryTriggers(DaysUntilExpiry(product.expiryDate[1]))
       /\ ~ExistsUnresolved(pid, "expiry_warning")
    THEN <<[productId |-> pid, type |-> "expiry_warning",
            severity |-> ExpirySeverity(DaysUntilExpiry(product.expiryDate[1])),
            aiConfidence |-> 90,
            metadata |-> [daysUntilExpiry |-> DaysUntilExpiry(product.expiryDate[1]),
                          expiryDate |-> product.expiryDate]]>>
    ELSE <<>>

RECURSIVE LedgerLosses_NoResync(_, _, _)
\* variant: calculatedStock keeps the recomputed value from one transaction
\* to the next
LedgerLosses_NoResync(txs, i, calculatedStock) ==
    IF i > Len(txs) THEN <<>>
    ELSE LET expected == calculatedStock + txs[i].quantity
             discrepancy == txs[i].newQuantity - expected
         IN  (IF Abs(expected - txs[i].newQuantity) > 0 /\ discrepancy < -2
              THEN <<[date |-> txs[i].createdAt, expectedStock |-> expected,
                      actualStock |-> txs[i].newQuantity,
                      discrepancy |-> Abs(discrepancy), kind |-> "ledger"]>>
              ELSE <<>>)
             \o LedgerLosses_NoResync(txs, i + 1, expected)

RECURSIVE LedgerLosses(_, _, _)
\* the walk over the ledger: calculatedStock is resynchronized after every
\* transaction, a shortfall of more than 2 is an unexplained loss
LedgerLosses(txs, i, calculatedStock) ==
    IF i > Len(txs) THEN <<>>
    ELSE LET expected == calculatedStock + txs[i].quantity
             discrepancy == txs[i].newQuantity - expected
         IN  (IF Abs(expected - txs[i].newQuantity) > 0 /\ discrepancy < -2
              THEN <<[date |-> txs[i].createdAt, expectedStock |-> expected,
                      actualStock |-> txs[i].newQuantity,
                      discrepancy |-> Abs(discrepancy), kind |-> "ledger"]>>
              ELSE <<>>)
             \o LedgerLosses(txs, i + 1, txs[i].newQuantity)

\* the live quantity against the last transaction
CurrentLoss(product, lastTransaction) ==
    IF /\ product.quantity < lastTransaction.newQuantity
       /\ lastTransaction.newQuantity - product.quantity > 2
    THEN <<[date |-> now, expectedStock |-> lastTransaction.newQuantity,
            actualStock |-> product.quantity,
            discrepancy |-> lastTransaction.newQuantity - product.quantity,
            kind |-> "current_discrepancy"]>>
    ELSE <<>>

\* unexplainedLosses for a non-empty 30-day ledger
UnexplainedLosses(product, txs) ==
    LedgerLosses(txs, 1, txs[1].previousQuantity) \o CurrentLoss(product, Last(txs))

TotalLoss(losses) == SumSeq([i \in DOMAIN losses |-> losses[i].discrepancy])

\* variant: no cap
calculateTheftConfidence_NoCap(unexplainedLosses, totalLoss) ==
    LET recentLosses == SelectSeq(unexplainedLosses,
                                  LAMBDA loss : loss.date > now - Hours(7))
    IN  50 + (IF Len(unexplainedLosses) > 2 THEN 10 ELSE 0)
           + (IF Len(unexplainedLosses) > 5 THEN 10 ELSE 0)
           + (IF totalLoss > 10 THEN 10 ELSE 0)
           + (IF totalLoss > 25 THEN 10 ELSE 0)
           + (IF Len(recentLosses) > 0 THEN 10 ELSE 0)

\* calculateTheftConfidence, in hundredths
calculateTheftConfidence(unexplainedLosses, totalLoss) ==
    LET recentLosses == SelectSeq(unexplainedLosses,
                                  LAMBDA loss : loss.date > now - Hours(7))
    IN  Min(50 + (IF Len(unexplainedLosses) > 2 THEN 10 ELSE 0)
               + (IF Len(unexplainedLosses) > 5 THEN 10 ELSE 0)
               + (IF totalLoss > 10 THEN 10 ELSE 0)
               + (IF totalLoss > 25 THEN 10 ELSE 0)
               + (IF Len(recentLosses) > 0 THEN 10 ELSE 0),
            95)

TheftSeverity(totalLoss, lossValue) ==
    IF lossValue > 500 THEN "critical"
    ELSE IF totalLoss > 10 THEN "high" ELSE "medium"

\* variant: the loss threshold alone
TheftEmits_LossOnly(pid, totalLoss) == totalLoss > 3

\* the guard of the push: an unresolved potential_theft anomaly of the last
\* 24 hours exists already, and totalLoss > 3
TheftEmits(pid, totalLoss) ==
    ExistsUnresolvedSince(pid, "potential_theft", now - Hours(1)) /\ totalLoss > 3

detectPotentialTheft(pid, product) ==
    LET txs == TransactionsSince(pid, now - Hours(30))
    IN  IF txs = <<>> THEN <<>>
        ELSE LET unexplainedLosses == UnexplainedLosses(product, txs)
                 totalLoss == TotalLoss(unexplainedLosses)
                 lossValue == totalLoss * product.price
             IN  IF Len(unexplainedLosses) > 0 /\ TheftEmits(pid, totalLoss)
                 THEN <<[productId |-> pid, type |-> "potential_theft",
                         severity |-> TheftSeverity(totalLoss, lossValue),
                         aiConfidence |->
                             calculateTheftConfidence(unexplainedLosses, totalLoss),
                         metadata |-> [totalUnitsLost |-> totalLoss,
                                       estimatedValue |-> lossValue,
                                       discrepancyCount |-> Len(unexplainedLosses)]]>>
                 ELSE <<>>

\* shrinkage / 90 > rate, for an integer shrinkage
ShrinkageRateAbove(shrinkage, rate) == shrinkage > rate * 90

\* variant: the unit threshold alone
ShrinkageTriggers_UnitsOnly(shrinkage) == shrinkage > 5

\* shrinkageRate > 0.5, i.e. 2 * shrinkage > 90
ShrinkageTriggers(shrinkage) == 2 * shrinkage > 90 /\ shrinkage > 5

detectShrinkagePatterns(pid, product) ==
    LET txs == TransactionsSince(pid, now - Hours(90))
    IN  IF Len(txs) < 10 THEN <<>>
        ELSE LET sales == SelectSeq(txs, LAMBDA t : t.type = "sale")
                 restocks == SelectSeq(txs, LAMBDA t : t.type \in {"restock", "purchase"})
                 totalSales == SumSeq([i \in DOMAIN sales |-> Abs(sales[i].quantity)])
                 totalRestocks ==
                     SumSeq([i \in DOMAIN restocks |-> Abs(restocks[i].quantity)])
                 expectedCurrentStock ==
                     txs[1].previousQuantity + totalRestocks - totalSales
                 shrinkage == expectedCurrentStock - product.quantity
             IN  IF /\ ShrinkageTriggers(shrinkage)
                    /\ ~ExistsSince(pid, "inventory_shrinkage", now - Hours(7))
                 THEN <<[productId |-> pid, type |-> "inventory_shrinkage",
                         severity |-> IF ShrinkageRateAbove(shrinkage, 2)
                                      THEN "high" ELSE "medium",
                         aiConfidence |-> 80,
                         metadata |-> [totalShrinkage |-> shrinkage,
                                       expectedStock |-> expectedCurrentStock,
                                       actualStock |-> product.quantity,
                                       totalSales |-> totalSales,
                                       totalRestocks |-> totalRestocks]]>>
                 ELSE <<>>

\* new Date(createdAt).getHours()
HourOfDay(t) == t % 24

\* hourlyActivity.slice(23, 24).concat(hourlyActivity.slice(0, 6))
NightHours == {23} \cup (0 .. 5)

\* variant: two night transactions suffice
AfterHoursFires_FromTwo(totalNightActivity) == totalNightActivity >= 2

\* if (totalNightActivity > 2)
AfterHoursFires(totalNightActivity) == totalNightActivity > 2

detectUnauthorizedAccess(pid, product) ==
    LET txs == TransactionsSince(pid, now - Hours(7))
        totalNightActivity ==
            Len(SelectSeq(txs, LAMBDA t : HourOfDay(t.createdAt) \in NightHours))
        userIds == {txs[i].userId : i \in DOMAIN txs}
        count(u) == Len(SelectSeq(txs, LAMBDA t : t.userId = u))
        excessive == {u \in userIds : count(u) > 10 /\ u # "system"}
        afterHours == AfterHoursFires(totalNightActivity)
    IN  IF /\ afterHours \/ excessive # {}
           /\ ~ExistsSince(pid, "unauthorized_access_pattern", now - Hours(1))
        THEN <<[productId |-> pid, type |-> "unauthorized_access_pattern",
                severity |-> IF afterHours THEN "high" ELSE "medium",
                aiConfidence |-> 70,
                metadata |-> [afterHours |-> afterHours,
                              excessiveUsers |-> excessive,
                              totalTransactions |-> Len(txs)]]>>
        ELSE <<>>

\* variant: products of any price
SuspiciousActivity_AnyPrice(pid) ==
    LET recentTransactions == TransactionsSince(pid, now - Hours(1))
    IN  IF /\ recentTransactions # <<>>
           /\ products[pid].quantity < Last(recentTransactions).newQuantity
        THEN <<[productId |-> pid,
                discrepancy |-> Last(recentTransactions).newQuantity
                                    - products[pid].quantity,
                value |-> (Last(recentTransactions).newQuantity
                              - products[pid].quantity) * products[pid].price]>>
        ELSE <<>>

\* the suspiciousActivity entry of one product of Product.find({price: {$gt: 100}})
SuspiciousActivity(pid) ==
    LET recentTransactions == TransactionsSince(pid, now - Hours(1))
    IN  IF /\ products[pid].price > 100
           /\ recentTransactions # <<>>
           /\ products[pid].quantity < Last(recentTransactions).newQuantity
        THEN <<[productId |-> pid,
                discrepancy |-> Last(recentTransactions).newQuantity
                                    - products[pid].quantity,
                value |-> (Last(recentTransactions).newQuantity
                              - products[pid].quantity) * products[pid].price]>>
        ELSE <<>>

RECURSIVE ConcatMap(_, _)
\* f[s[1]] \o f[s[2]] \o ...
ConcatMap(f, s) == IF s = <<>> THEN <<>> ELSE f[Head(s)] \o ConcatMap(f, Tail(s))

\* reads the Product collection anew, not the pass's documents
detectSystemwideTheftPatterns ==
    LET suspiciousActivity ==
            ConcatMap([pid \in ProductIds |-> SuspiciousActivity(pid)], ProductSeq)
    IN  IF Len(suspiciousActivity) >= 3
        THEN <<[productId |-> NullId, type |-> "organized_theft_pattern",
                severity |-> "critical", aiConfidence |-> 85,
                metadata |-> [affectedProducts |-> Len(suspiciousActivity),
                              totalValue |-> SumSeq([i \in DOMAIN suspiciousActivity |->
                                                        suspiciousActivity[i].value])]]>>
        ELSE <<>>

\* the five detectors of the loop body, for one product
DetectProduct(pid, product) ==
    detectLowStock(pid, product) \o detectExpiryWarnings(pid, product)
        \o detectPotentialTheft(pid, product)
        \o detectShrinkagePatterns(pid, product)
        \o detectUnauthorizedAccess(pid, product)

\* the candidates of a pass over the documents `found`
DetectAll(found) ==
    ConcatMap([pid \in DOMAIN found |-> DetectProduct(pid, found[pid])],
              SelectSeq(ProductOrder, LAMBDA id : id \in DOMAIN found))
        \o detectSystemwideTheftPatterns

\* mongoose's validation of one document of Anomaly.insertMany
AnomalyValid(candidate) ==
    candidate.type \in AnomalyTypes /\ candidate.productId # NullId

----------------------------------------------------------------------------
(* The detection triggers: detectAnomalies(), then generateTheftAlerts()   *)
(* (POST /api/ai/detect-anomalies, POST /api/ai/detect-theft, the          *)
(* 30-minute timer and the start-up run)                                   *)

IdlePass ==
    [pc |-> "idle", found |-> <<>>, batch |-> <<>>, returned |-> <<>>,
     alertsGenerated |-> 0, alone |-> FALSE, failed |-> {}]

PassesInFlight(d) == {o \in DOMAIN passes \ {d} : passes[o].pc \notin {"idle", "done"}}

\* const products = await Product.find({})
DetectFindProducts(d) ==
    /\ passes[d].pc = "idle"
    /\ passes' = [o \in DOMAIN passes |->
           IF o = d
           THEN [IdlePass EXCEPT !.pc = "detect", !.found = products,
                                 !.alone = (PassesInFlight(d) = {})]
           ELSE [passes[o] EXCEPT !.alone = FALSE]]
    /\ UNCHANGED <<products, transactions, anomalies, alerts, now, requests,
                   disturbed, quietPasses>>

\* the loop over the products and the cross-product analysis
DetectRun(d) ==
    /\ passes[d].pc = "detect"
    /\ passes' = [passes EXCEPT ![d].pc = "insert",
                                ![d].batch = DetectAll(passes[d].found)]
    /\ UNCHANGED <<products, transactions, anomalies, alerts, now, requests,
                   disturbed, quietPasses>>

\* the detectors called in the loop body, each inside its own try/catch
Detectors ==
    {"detectLowStock", "detectExpiryWarnings", "detectPotentialTheft",
     "detectShrinkagePatterns", "detectUnauthorizedAccess"}

\* the loop body for one product when the store calls of the detectors in
\* `failing` throw: the detector's catch logs the error and nothing is pushed
DetectProductExcept(pid, product, failing) ==
    (IF "detectLowStock" \in failing THEN <<>> ELSE detectLowStock(pid, product))
        \o (IF "detectExpiryWarnings" \in failing THEN <<>>
            ELSE detectExpiryWarnings(pid, product))
        \o (IF "detectPotentialTheft" \in failing THEN <<>>
            ELSE detectPotentialTheft(pid, product))
        \o (IF "detectShrinkagePatterns" \in failing THEN <<>>
            ELSE detectShrinkagePatterns(pid, product))
        \o (IF "detectUnauthorizedAccess" \in failing THEN <<>>
            ELSE detectUnauthorizedAccess(pid, product))

\* the candidates of a pass in which `detector` fails for product `failedPid`
DetectAllExcept(found, failedPid, detector) ==
    ConcatMap([pid \in DOMAIN found |->
                  DetectProductExcept(pid, found[pid],
                      IF pid = failedPid THEN {detector} ELSE {})],
              SelectSeq(ProductOrder, LAMBDA id : id \in DOMAIN found))
        \o detectSystemwideTheftPatterns

\* the loop and the cross-product analysis, with a store call that throws
\* inside one detector for one product
DetectRunDetectorFails(d, pid, detector) ==
    /\ passes[d].pc = "detect"
    /\ pid \in DOMAIN passes[d].found
    /\ detector \in Detectors
    /\ passes' = [passes EXCEPT ![d].pc = "insert",
                                ![d].batch = DetectAllExcept(passes[d].found, pid, detector),
                                ![d].failed = {<<pid, detector>>}]
    /\ UNCHANGED <<products, transactions, anomalies, alerts, now, requests,
                   disturbed, quietPasses>>

\* the stored document of a candidate (timestamps: true, resolved: false)
StoredAnomaly(candidate) ==
    [productId |-> candidate.productId, type |-> candidate.type,
     severity |-> candidate.severity, aiConfidence |-> candidate.aiConfidence,
     metadata |-> candidate.metadata,
     resolved |-> FALSE, resolvedAt |-> NoDate, createdAt |-> now]

\* if (anomalies.length > 0) await Anomaly.insertMany(anomalies); return anomalies
\* insertMany validates every document first: one invalid document rejects the
\* whole batch, and the catch returns []
DetectInsertMany(d) ==
    /\ passes[d].pc = "insert"
    /\ LET batch == passes[d].batch
           valid == \A i \in DOMAIN batch : AnomalyValid(batch[i])
       IN  IF batch # <<>> /\ valid
           THEN /\ Len(anomalies) + Len(batch) <= MaxAnomalies
                /\ anomalies' = anomalies \o [i \in DOMAIN batch |-> StoredAnomaly(batch[i])]
                /\ passes' = [o \in DOMAIN passes |->
                       IF o = d THEN [passes[d] EXCEPT !.pc = "alerts", !.returned = batch]
                       ELSE [passes[o] EXCEPT !.alone = FALSE]]
           ELSE /\ passes' = [passes EXCEPT ![d].pc = "alerts", ![d].returned = <<>>]
                /\ UNCHANGED anomalies
    /\ UNCHANGED <<products, transactions, alerts, now, requests, disturbed, quietPasses>>

\* Product.find({}) rejected by the store: the catch returns []
DetectFindProductsFails(d) ==
    /\ passes[d].pc = "idle"
    /\ passes' = [o \in DOMAIN passes |->
           IF o = d
           THEN [IdlePass EXCEPT !.pc = "alerts"]
           ELSE [passes[o] EXCEPT !.alone = FALSE]]
    /\ UNCHANGED <<products, transactions, anomalies, alerts, now, requests,
                   disturbed, quietPasses>>

\* variant: the batch is returned although the write was rejected
DetectInsertManyFails_ReturnsBatch(d) ==
    /\ passes[d].pc = "insert"
    /\ passes[d].batch # <<>>
    /\ passes' = [passes EXCEPT ![d].pc = "alerts", ![d].returned = passes[d].batch]
    /\ UNCHANGED <<products, transactions, anomalies, alerts, now, requests,
                   disturbed, quietPasses>>

\* Anomaly.insertMany(anomalies) rejected by the store: nothing is written and
\* the catch returns []
DetectInsertManyFails(d) ==
    /\ passes[d].pc = "insert"
    /\ passes[d].batch # <<>>
    /\ passes' = [passes EXCEPT ![d].pc = "alerts", ![d].returned = <<>>,
                                ![d].alone = FALSE]
    /\ UNCHANGED <<products, transactions, anomalies, alerts, now, requests,
                   disturbed, quietPasses>>

\* the anomaly types generateTheftAlerts reads (whatever their resolved flag)
AlertAnomalyTypes ==
    {"low_stock", "unusual_pattern", "expiry_warning", "high_variance",
     "stock_discrepancy", "potential_theft", "unauthorized_access_pattern", "security"}

\* anomaly.type.replace(/_/g, ' ').toUpperCase()
AlertTitle(type) ==
    CASE type = "low_stock" -> "LOW STOCK"
      [] type = "unusual_pattern" -> "UNUSUAL PATTERN"
      [] type = "expiry_warning" -> "EXPIRY WARNING"
      [] type = "high_variance" -> "HIGH VARIANCE"
      [] type = "stock_discrepancy" -> "STOCK DISCREPANCY"
      [] type = "potential_theft" -> "POTENTIAL THEFT"
      [] type = "unauthorized_access_pattern" -> "UNAUTHORIZED ACCESS PATTERN"
      [] type = "security" -> "SECURITY"
      [] type = "inventory_shrinkage" -> "INVENTORY SHRINKAGE"
      [] type = "organized_theft_pattern" -> "ORGANIZED THEFT PATTERN"

\* Alert.findOne({type: 'security', productId, createdAt: {$gte: two hours ago}})
ExistingAlert(pid) ==
    \E i \in DOMAIN alerts :
        /\ alerts[i].type = "security"
        /\ alerts[i].productId = pid
        /\ alerts[i].createdAt >= now - 2

\* the ids of the anomalies that get an alert, in store order
AlertedAnomalies ==
    SelectSeq([i \in DOMAIN anomalies |-> i],
              LAMBDA i : /\ anomalies[i].type \in AlertAnomalyTypes
                         /\ ~ExistingAlert(anomalies[i].productId))

\* the stored document of an alert; alertSchema has no metadata path, so the
\* metadata (anomalyId, confidence) is not stored
StoredAlert(anomalyId) ==
    [type |-> "security", title |-> AlertTitle(anomalies[anomalyId].type),
     severity |-> "error", read |-> FALSE,
     productId |-> anomalies[anomalyId].productId, createdAt |-> now]

\* generateTheftAlerts(), and the end of the trigger
GenerateTheftAlerts(d) ==
    /\ passes[d].pc = "alerts"
    /\ Len(alerts) + Len(AlertedAnomalies) <= MaxAlerts
    /\ alerts' = alerts \o [k \in DOMAIN AlertedAnomalies |-> StoredAlert(AlertedAnomalies[k])]
    /\ passes' = [passes EXCEPT ![d].pc = "done",
                                ![d].alertsGenerated = Len(AlertedAnomalies)]
    /\ quietPasses' = IF passes[d].alone THEN Min(QuietCap, quietPasses + 1)
                      ELSE quietPasses
    /\ UNCHANGED <<products, transactions, anomalies, now, requests, disturbed>>

\* the trigger has answered
PassRespond(d) ==
    /\ passes[d].pc = "done"
    /\ passes' = [passes EXCEPT ![d] = IdlePass]
    /\ UNCHANGED <<products, transactions, anomalies, alerts, now, requests,
                   disturbed, quietPasses>>

----------------------------------------------------------------------------
(* PUT /api/anomalies/:id/resolve *)

ResolveAnomaly(id) ==
    /\ id \in DOMAIN anomalies
    /\ anomalies' = [anomalies EXCEPT ![id].resolved = TRUE, ![id].resolvedAt = <<now>>]
    /\ quietPasses' = 0
    /\ passes' = [d \in DOMAIN passes |-> [passes[d] EXCEPT !.alone = FALSE]]
    /\ UNCHANGED <<products, transactions, alerts, now, requests, disturbed>>

----------------------------------------------------------------------------
(* The clock *)

Tick(hours) ==
    /\ now + hours <= MaxTime
    /\ now' = now + hours
    /\ UNCHANGED <<products, transactions, anomalies, alerts, requests, passes,
                   disturbed, quietPasses>>

----------------------------------------------------------------------------
(* Initial stores *)

ProductDoc(quantity, minimumStock, price, expiryDate) ==
    [quantity |-> quantity, minimumStock |-> minimumStock, price |-> price,
     expiryDate |-> expiryDate]

InitCommon ==
    /\ transactions = <<>>
    /\ alerts = <<>>
    /\ now = 0
    /\ disturbed = [pid \in DOMAIN products |-> {}]
    /\ quietPasses = 0

----------------------------------------------------------------------------
(* SpecStock: two stock-change requests that may overlap and fail, and     *)
(* direct edits, over two products                                         *)

StockRequestIds == {"r1", "r2"}

StockQuantityInputs == {3}

StockTypeInputs == {"sale", "restock"}

StockEditInputs == {2}

InitStock ==
    /\ products = [pid \in {"p1", "p2"} |-> ProductDoc(4, 10, 60, NoDate)]
    /\ anomalies = <<>>
    /\ requests = [r \in StockRequestIds |-> IdleRequest]
    /\ passes = <<>>
    /\ InitCommon

NextStock ==
    \/ \E r \in StockRequestIds, pid \in ProductIds,
          quantity \in StockQuantityInputs, type \in StockTypeInputs :
            StockFindProduct(r, pid, quantity, type, "system")
    \/ \E r \in StockRequestIds : StockSaveTransaction(r)
    \/ \E r \in StockRequestIds : StockSaveTransactionFails(r)
    \/ \E r \in StockRequestIds : StockSaveProduct(r)
    \/ \E r \in StockRequestIds : StockSaveProductFails(r)
    \/ \E r \in StockRequestIds : StockRespond(r)
    \/ \E pid \in ProductIds, quantity \in StockEditInputs : DirectEdit(pid, quantity)

SpecStock == InitStock /\ [][NextStock]_vars

----------------------------------------------------------------------------
(* SpecInputs: one stock-change request at a time, over every kind of      *)
(* request body: each type of the enum and one outside it, quantities      *)
(* below, at and above zero, a product id that exists and one that does    *)
(* not                                                                     *)

InputQuantities == {-2, 0, 5}

InputTypes == TransactionTypes \cup {"refund"}

InitInputs ==
    /\ products = [pid \in {"p1"} |-> ProductDoc(4, 10, 60, NoDate)]
    /\ anomalies = <<>>
    /\ requests = [r \in {"r1"} |-> IdleRequest]
    /\ passes = <<>>
    /\ InitCommon

NextInputs ==
    \/ \E pid \in ProductIds \cup {MissingId},
          quantity \in InputQuantities, type \in InputTypes :
            StockFindProduct("r1", pid, quantity, type, "system")
    \/ StockSaveTransaction("r1")
    \/ StockSaveTransactionFails("r1")
    \/ StockSaveProduct("r1")
    \/ StockSaveProductFails("r1")
    \/ StockRespond("r1")

SpecInputs == InitInputs /\ [][NextInputs]_vars

----------------------------------------------------------------------------
(* Spec: one stock change at a time and direct edits of p1, one detection   *)
(* trigger at a time and resolutions, from an empty anomaly store, within   *)
(* one hour                                                                *)

DetectQuantityInputs == {2}

DetectTypeInputs == {"sale"}

DetectEditInputs == {0}

InitProducts ==
    products = [pid \in {"p1", "p2"} |->
                   IF pid = "p1" THEN ProductDoc(12, 10, 60, NoDate)
                   ELSE ProductDoc(0, 5, 200, NoDate)]

InitHandlers ==
    /\ requests = [r \in {"r1"} |-> IdleRequest]
    /\ passes = [d \in {"d1"} |-> IdlePass]

Init ==
    /\ InitProducts
    /\ anomalies = <<>>
    /\ InitHandlers
    /\ InitCommon

Next ==
    \/ \E pid \in {"p1"}, quantity \in DetectQuantityInputs,
          type \in DetectTypeInputs :
            StockFindProduct("r1", pid, quantity, type, "system")
    \/ StockSaveTransaction("r1")
    \/ StockSaveProduct("r1")
    \/ StockRespond("r1")
    \/ \E pid \in {"p1"}, quantity \in DetectEditInputs : DirectEdit(pid, quantity)
    \/ DetectFindProducts("d1")
    \/ DetectRun("d1")
    \/ DetectInsertMany("d1")
    \/ GenerateTheftAlerts("d1")
    \/ PassRespond("d1")
    \/ \E id \in DOMAIN anomalies : ResolveAnomaly(id)


Spec == Init /\ [][Next]_vars

----------------------------------------------------------------------------
(* SpecSeeded: direct edits, detection triggers, resolutions and the clock *)
(* over p1 after one recorded sale, from a store that may hold a           *)
(* potential_theft anomaly of p1 recorded about a day ago                  *)

SeededSale ==
    [productId |-> "p1", type |-> "sale", quantity |-> -2, previousQuantity |-> 12,
     newQuantity |-> 10, userId |-> "system", createdAt |-> -1]

SeededAnomaly(createdAt) ==
    [productId |-> "p1", type |-> "potential_theft", severity |-> "medium",
     aiConfidence |-> 60,
     metadata |-> [totalUnitsLost |-> 4, estimatedValue |-> 240, discrepancyCount |-> 1],
     resolved |-> FALSE, resolvedAt |-> NoDate, createdAt |-> createdAt]

SeededEditInputs == {1, 7}

InitSeeded ==
    /\ products = [pid \in {"p1"} |-> ProductDoc(10, 0, 60, NoDate)]
    /\ transactions = <<SeededSale>>
    /\ anomalies \in {<<>>, <<SeededAnomaly(-Hours(1))>>, <<SeededAnomaly(1 - Hours(1))>>}
    /\ InitHandlers
    /\ alerts = <<>>
    /\ now = 0
    /\ disturbed = [pid \in DOMAIN products |-> {}]
    /\ quietPasses = 0

NextSeeded ==
    \/ \E quantity \in SeededEditInputs : DirectEdit("p1", quantity)
    \/ DetectFindProducts("d1")
    \/ DetectRun("d1")
    \/ DetectInsertMany("d1")
    \/ GenerateTheftAlerts("d1")
    \/ PassRespond("d1")
    \/ \E id \in DOMAIN anomalies : ResolveAnomaly(id)
    \/ Tick(1)

SpecSeeded == InitSeeded /\ [][NextSeeded]_vars

----------------------------------------------------------------------------
(* SpecExpiry: detection triggers, resolutions and the clock over products *)
(* whose expiry dates lie on both sides of each threshold, one of them     *)
(* below its minimum stock                                                 *)

ExpiryInputs ==
    {NoDate, <<1>>, <<Hours(7) + 1>>, <<Hours(30)>>, <<Hours(30) + 1>>}

ExpiryOnThreshold == {<<Hours(7)>>}

InitExpiry ==
    /\ products \in {[pid \in {"p1", "p2"} |->
                        ProductDoc(IF pid = "p1" THEN 12 ELSE 5, 10, 60,
                                   IF pid = "p1" THEN e1 ELSE e2)] :
                     e1 \in ExpiryInputs, e2 \in ExpiryOnThreshold}
    /\ anomalies = <<>>
    /\ InitHandlers
    /\ InitCommon

NextExpiry ==
    \/ DetectFindProducts("d1")
    \/ DetectRun("d1")
    \/ DetectInsertMany("d1")
    \/ GenerateTheftAlerts("d1")
    \/ PassRespond("d1")
    \/ \E id \in DOMAIN anomalies : ResolveAnomaly(id)
    \/ Tick(1)

SpecExpiry == InitExpiry /\ [][NextExpiry]_vars

----------------------------------------------------------------------------
(* SpecShrinkage: direct edits, detection triggers and resolutions over p1 *)
(* after a run of two-unit stock changes from quantity 200, noon yesterday *)

\* the ledger of `count` two-unit changes of one type starting from 200,
\* where, if `untracked`, one unit was removed by a direct edit after the
\* first, fourth, seventh, ... change
SeededLedger(count, type, untracked) ==
    [k \in 1 .. count |->
        LET previousQuantity ==
                200 + (k - 1) * QuantityChange(type, 2)
                    - (IF untracked THEN CeilDiv(k - 1, 3) ELSE 0)
        IN  [productId |-> "p1", type |-> type, quantity |-> QuantityChange(type, 2),
             previousQuantity |-> previousQuantity,
             newQuantity |-> NewQuantity(previousQuantity, QuantityChange(type, 2)),
             userId |-> "system", createdAt |-> -12]]

\* the quantity the product was left with
SeededQuantity(ledger, untracked) ==
    Last(ledger).newQuantity
        - (IF untracked /\ (Len(ledger) - 1) % 3 = 0 THEN 1 ELSE 0)

ShrinkageLedgers ==
    {<<SeededLedger(15, "sale", TRUE), TRUE>>,
     <<SeededLedger(9, "sale", TRUE), TRUE>>,
     <<SeededLedger(10, "restock", FALSE), FALSE>>}

ShrinkageEditInputs == {0, 40, 124, 125}

InitShrinkage ==
    /\ \E seeded \in ShrinkageLedgers :
          /\ transactions = seeded[1]
          /\ products = [pid \in {"p1"} |->
                 ProductDoc(SeededQuantity(seeded[1], seeded[2]), 10, 50, NoDate)]
    /\ anomalies = <<>>
    /\ InitHandlers
    /\ alerts = <<>>
    /\ now = 0
    /\ disturbed = [pid \in DOMAIN products |-> {}]
    /\ quietPasses = 0

NextShrinkage ==
    \/ \E quantity \in ShrinkageEditInputs : DirectEdit("p1", quantity)
    \/ DetectFindProducts("d1")
    \/ DetectRun("d1")
    \/ DetectInsertMany("d1")
    \/ GenerateTheftAlerts("d1")
    \/ PassRespond("d1")
    \/ \E id \in DOMAIN anomalies : ResolveAnomaly(id)
    \/ Tick(1)

SpecShrinkage == InitShrinkage /\ [][NextShrinkage]_vars

----------------------------------------------------------------------------
(* SpecAccess: detection triggers, resolutions and the clock over p1 after *)
(* a run of one-unit sales by one actor, from a store that may hold an     *)
(* unauthorized_access_pattern anomaly of p1 recorded about a day ago      *)

\* `count` one-unit sales from quantity 50 by one actor at one time
AccessLedger(count, userId, createdAt) ==
    [k \in 1 .. count |->
        [productId |-> "p1", type |-> "sale", quantity |-> QuantityChange("sale", 1),
         previousQuantity |-> 50 - (k - 1),
         newQuantity |-> NewQuantity(50 - (k - 1), QuantityChange("sale", 1)),
         userId |-> userId, createdAt |-> createdAt]]

\* noon and 11 PM of the day before yesterday
AccessLedgers ==
    {AccessLedger(12, "suspicious_user_123", -36),
     AccessLedger(10, "suspicious_user_123", -36),
     AccessLedger(11, "system", -36),
     AccessLedger(3, "system", -25),
     AccessLedger(2, "system", -25)}

AccessAnomaly(createdAt, resolved) ==
    [productId |-> "p1", type |-> "unauthorized_access_pattern", severity |-> "medium",
     aiConfidence |-> 70,
     metadata |-> [afterHours |-> FALSE, excessiveUsers |-> {"suspicious_user_123"},
                   totalTransactions |-> 12],
     resolved |-> resolved,
     resolvedAt |-> IF resolved THEN <<createdAt>> ELSE NoDate,
     createdAt |-> createdAt]

InitAccess ==
    /\ transactions \in AccessLedgers
    /\ products = [pid \in {"p1"} |-> ProductDoc(Last(transactions).newQuantity, 10, 50, NoDate)]
    /\ anomalies \in
           {<<>>} \cup
           (IF Len(transactions) = 12
            THEN {<<AccessAnomaly(createdAt, resolved)>> :
                     createdAt \in {-Hours(1), 1 - Hours(1)}, resolved \in BOOLEAN}
            ELSE {})
    /\ InitHandlers
    /\ alerts = <<>>
    /\ now = 0
    /\ disturbed = [pid \in DOMAIN products |-> {}]
    /\ quietPasses = 0

NextAccess ==
    \/ DetectFindProducts("d1")
    \/ DetectRun("d1")
    \/ DetectInsertMany("d1")
    \/ GenerateTheftAlerts("d1")
    \/ PassRespond("d1")
    \/ \E id \in DOMAIN anomalies : ResolveAnomaly(id)
    \/ Tick(1)

SpecAccess == InitAccess /\ [][NextAccess]_vars

----------------------------------------------------------------------------
(* SpecOrganized: direct edits, detection triggers and the clock over      *)
(* three products, each after one recorded two-unit sale                   *)

OrganizedSale(pid, createdAt) ==
    [productId |-> pid, type |-> "sale", quantity |-> QuantityChange("sale", 2),
     previousQuantity |-> 12,
     newQuantity |-> NewQuantity(12, QuantityChange("sale", 2)),
     userId |-> "system", createdAt |-> createdAt]

OrganizedPriceInputs == {100, 101}

OrganizedEditInputs == {4}

InitOrganized ==
    /\ \E price \in OrganizedPriceInputs :
          products = [pid \in {"p1", "p2", "p3"} |->
              ProductDoc(10, IF pid = "p1" THEN 5 ELSE 0,
                         IF pid = "p3" THEN price ELSE 200, NoDate)]
    /\ transactions = <<OrganizedSale("p1", -1), OrganizedSale("p2", -1),
                        OrganizedSale("p3", 1 - Hours(1))>>
    /\ anomalies = <<>>
    /\ InitHandlers
    /\ alerts = <<>>
    /\ now = 0
    /\ disturbed = [pid \in DOMAIN products |-> {}]
    /\ quietPasses = 0

NextOrganized ==
    \/ \E pid \in {"p1", "p2", "p3"}, quantity \in OrganizedEditInputs :
            DirectEdit(pid, quantity)
    \/ DetectFindProducts("d1")
    \/ DetectRun("d1")
    \/ DetectInsertMany("d1")
    \/ GenerateTheftAlerts("d1")
    \/ PassRespond("d1")
    \/ Tick(1)

SpecOrganized == InitOrganized /\ [][NextOrganized]_vars

----------------------------------------------------------------------------
(* SpecRerun: as SpecSeeded with the clock stopped, so that one trigger    *)
(* follows another at the same instant                                     *)

NextRerun ==
    \/ \E quantity \in SeededEditInputs : DirectEdit("p1", quantity)
    \/ DetectFindProducts("d1")
    \/ DetectRun("d1")
    \/ DetectInsertMany("d1")
    \/ GenerateTheftAlerts("d1")
    \/ PassRespond("d1")
    \/ \E id \in DOMAIN anomalies : ResolveAnomaly(id)

SpecRerun == InitSeeded /\ [][NextRerun]_vars

----------------------------------------------------------------------------
(* SpecFaults: direct edits of p1, detection triggers and resolutions over *)
(* a store whose reads and bulk writes may fail                            *)

NextFaults ==
    \/ \E quantity \in DetectEditInputs : DirectEdit("p1", quantity)
    \/ DetectFindProducts("d1")
    \/ DetectFindProductsFails("d1")
    \/ DetectRun("d1")
    \/ DetectInsertMany("d1")
    \/ DetectInsertManyFails("d1")
    \/ GenerateTheftAlerts("d1")
    \/ PassRespond("d1")
    \/ \E id \in DOMAIN anomalies : ResolveAnomaly(id)

SpecFaults == Init /\ [][NextFaults]_vars

----------------------------------------------------------------------------
(* SpecIsolation: as SpecOrganized, with store calls that may throw inside  *)
(* one detector for one product                                            *)

NextIsolation ==
    \/ \E pid \in {"p1", "p2", "p3"}, quantity \in OrganizedEditInputs :
            DirectEdit(pid, quantity)
    \/ DetectFindProducts("d1")
    \/ DetectRun("d1")
    \/ \E pid \in {"p1", "p2", "p3"}, detector \in Detectors :
            DetectRunDetectorFails("d1", pid, detector)
    \/ DetectInsertMany("d1")
    \/ GenerateTheftAlerts("d1")
    \/ PassRespond("d1")
    \/ Tick(1)

SpecIsolation == InitOrganized /\ [][NextIsolation]_vars

----------------------------------------------------------------------------
(* SpecOverlap: the timer, the on-demand trigger and the start-up run are   *)
(* not serialized: two detection passes that may overlap each other,       *)
(* direct edits and resolutions over one product                           *)

OverlapPassIds == {"d1", "d2"}

OverlapEditInputs == {0}

InitOverlap ==
    /\ products = [pid \in {"p1"} |-> ProductDoc(12, 10, 60, NoDate)]
    /\ anomalies = <<>>
    /\ requests = [r \in {"r1"} |-> IdleRequest]
    /\ passes = [d \in OverlapPassIds |-> IdlePass]
    /\ InitCommon

NextOverlap ==
    \/ \E quantity \in OverlapEditInputs : DirectEdit("p1", quantity)
    \/ \E d \in OverlapPassIds : DetectFindProducts(d)
    \/ \E d \in OverlapPassIds : DetectRun(d)
    \/ \E d \in OverlapPassIds : DetectInsertMany(d)
    \/ \E d \in OverlapPassIds : GenerateTheftAlerts(d)
    \/ \E d \in OverlapPassIds : PassRespond(d)
    \/ \E id \in DOMAIN anomalies : ResolveAnomaly(id)

SpecOverlap == InitOverlap /\ [][NextOverlap]_vars

----------------------------------------------------------------------------
(* SpecLedger: detection triggers and the clock over p1 with ledgers of    *)
(* three-unit sales between which the stored quantity was edited, from a   *)
(* store that holds a potential_theft anomaly of p1                        *)

\* the ledger of Len(gaps) + 1 sales of three units through the stock
\* route: before sale i + 1 the stored quantity was edited to gaps[i] below
\* the quantity that sale i recorded. The first sale is just inside the
\* 30-day window, the others carry the date `createdAt`
GapLedger(gaps, createdAt) ==
    LET before(i) == 80 - SumSeq([j \in 1 .. (i - 1) |-> 3 + gaps[j]])
    IN  [i \in 1 .. (Len(gaps) + 1) |->
            [productId |-> "p1", type |-> "sale",
             quantity |-> QuantityChange("sale", 3),
             previousQuantity |-> before(i),
             newQuantity |-> NewQuantity(before(i), QuantityChange("sale", 3)),
             userId |-> "system",
             createdAt |-> IF i = 1 THEN 1 - Hours(30) ELSE createdAt]]

LedgerGapInputs ==
    {<<>>} \cup [1 .. 2 -> {-4, 2, 3}]
        \cup {[i \in 1 .. 6 |-> 3], [i \in 1 .. 6 |-> 6]}

LedgerDateInputs == {-Hours(8), 1 - Hours(7), -12}

\* how far the stored quantity was edited below the last recorded one
LedgerDropInputs == {0, 2, 3}

LedgerPriceInputs == {10, 60}

InitLedger ==
    /\ \E gaps \in LedgerGapInputs, createdAt \in LedgerDateInputs,
          drop \in LedgerDropInputs, price \in LedgerPriceInputs :
            /\ transactions = GapLedger(gaps, createdAt)
            /\ products = [pid \in {"p1"} |->
                   ProductDoc(Last(GapLedger(gaps, createdAt)).newQuantity - drop,
                              0, price, NoDate)]
    /\ anomalies = <<SeededAnomaly(0)>>
    /\ InitHandlers
    /\ alerts = <<>>
    /\ now = 0
    /\ disturbed = [pid \in DOMAIN products |-> {"edit"}]
    /\ quietPasses = 0

NextLedger ==
    \/ DetectFindProducts("d1")
    \/ DetectRun("d1")
    \/ DetectInsertMany("d1")
    \/ GenerateTheftAlerts("d1")
    \/ PassRespond("d1")
    \/ Tick(1)

SpecLedger == InitLedger /\ [][NextLedger]_vars

----------------------------------------------------------------------------
(* SpecRearm: detection triggers, resolutions and the clock over p1, after  *)
(* 12 sales by one actor and with an unauthorized_access_pattern anomaly    *)
(* recorded about a day ago, and p2, out of stock and three days from its   *)
(* expiry date                                                              *)

InitRearm ==
    /\ transactions = AccessLedger(12, "suspicious_user_123", -36)
    /\ products = [pid \in {"p1", "p2"} |->
           IF pid = "p1" THEN ProductDoc(Last(transactions).newQuantity, 10, 50, NoDate)
           ELSE ProductDoc(0, 5, 60, <<Hours(3)>>)]
    /\ anomalies \in {<<AccessAnomaly(createdAt, FALSE)>> :
                          createdAt \in {-Hours(1), 1 - Hours(1)}}
    /\ InitHandlers
    /\ alerts = <<>>
    /\ now = 0
    /\ disturbed = [pid \in DOMAIN products |-> {}]
    /\ quietPasses = 0

NextRearm ==
    \/ DetectFindProducts("d1")
    \/ DetectRun("d1")
    \/ DetectInsertMany("d1")
    \/ GenerateTheftAlerts("d1")
    \/ PassRespond("d1")
    \/ \E id \in DOMAIN anomalies : ResolveAnomaly(id)
    \/ Tick(1)

SpecRearm == InitRearm /\ [][NextRearm]_vars

----------------------------------------------------------------------------
(* SpecRestock: one stock-change request at a time, sales and restocks of   *)
(* three units that all succeed, and detection triggers, over p1            *)

RestockQuantityInputs == {3}

RestockTypeInputs == {"sale", "restock"}

InitRestock ==
    /\ products = [pid \in {"p1"} |-> ProductDoc(4, 0, 60, NoDate)]
    /\ anomalies = <<>>
    /\ InitHandlers
    /\ InitCommon

NextRestock ==
    \/ \E quantity \in RestockQuantityInputs, type \in RestockTypeInputs :
            StockFindProduct("r1", "p1", quantity, type, "system")
    \/ StockSaveTransaction("r1")
    \/ StockSaveProduct("r1")
    \/ StockRespond("r1")
    \/ DetectFindProducts("d1")
    \/ DetectRun("d1")
    \/ DetectInsertMany("d1")
    \/ GenerateTheftAlerts("d1")
    \/ PassRespond("d1")

SpecRestock == InitRestock /\ [][NextRestock]_vars

----------------------------------------------------------------------------
(* Claims about the stock-change route *)

\* each transaction of the product starts where the one before it ended
LedgerChained(pid) ==
    \A i \in 1 .. Len(Ledger(pid)) - 1 :
        Ledger(pid)[i + 1].previousQuantity = Ledger(pid)[i].newQuantity

\* each transaction of the product ends at max(0, previous + signed delta)
LedgerClamped(pid) ==
    \A i \in DOMAIN Ledger(pid) :
        LET t == Ledger(pid)[i]
        IN  /\ t.newQuantity >= 0
            /\ t.newQuantity = (IF t.previousQuantity + t.quantity > 0
                                THEN t.previousQuantity + t.quantity ELSE 0)

\* requests that have recorded their transaction and not yet written the product
Writing(pid) ==
    {r \in DOMAIN requests :
        requests[r].pc = "saveProduct" /\ requests[r].productId = pid}

\* C1: for a product touched only by stock changes applied one after another
\* (no overlap, no direct edit, no failed write), every transaction has
\* previousQuantity = the product's quantity just before the change and
\* newQuantity = max(0, previousQuantity + signed delta); after each
\* operation the stored quantity equals the newest transaction's newQuantity
\* and is never negative.
C1_SequentialLedger ==
    \A pid \in ProductIds :
        disturbed[pid] = {} =>
            /\ LedgerChained(pid)
            /\ LedgerClamped(pid)
            /\ products[pid].quantity >= 0
            /\ \A r \in Writing(pid) :
                   /\ transactions[requests[r].transactionId].previousQuantity
                          = products[pid].quantity
                   /\ requests[r].transactionId
                          = CHOOSE i \in DOMAIN transactions :
                                /\ transactions[i].productId = pid
                                /\ \A j \in DOMAIN transactions :
                                       transactions[j].productId = pid => j <= i
            /\ (Writing(pid) = {} /\ Ledger(pid) # <<>>) =>
                   products[pid].quantity = Last(Ledger(pid)).newQuantity

\* C1 witness: an undisturbed product after two completed stock changes, one
\* of them a decrease that was clamped at zero
C1_Witness ==
    \E pid \in ProductIds :
        /\ disturbed[pid] = {}
        /\ Len(Ledger(pid)) >= 2
        /\ InFlightOn(pid, "none") = {}
        /\ \E i \in DOMAIN Ledger(pid) :
               Ledger(pid)[i].previousQuantity + Ledger(pid)[i].quantity < 0

\* applying a signed delta to a quantity, floor-clamped
Applied(quantity, delta) == IF quantity + delta > 0 THEN quantity + delta ELSE 0

\* C2: when stock changes of one product overlap (and nothing else touches
\* it), no update is lost: once they have completed, each transaction's
\* previousQuantity is the one before it's newQuantity, and the quantity is
\* what the two changes give applied one after the other in some order.
C2_NoLostUpdate ==
    \A pid \in ProductIds :
        (disturbed[pid] \subseteq {"overlap"} /\ InFlightOn(pid, "none") = {}) =>
            /\ LedgerChained(pid)
            /\ Len(Ledger(pid)) = 2 =>
                   LET start == Ledger(pid)[1].previousQuantity
                       d1 == Ledger(pid)[1].quantity
                       d2 == Ledger(pid)[2].quantity
                   IN  products[pid].quantity \in
                           {Applied(Applied(start, d1), d2),
                            Applied(Applied(start, d2), d1)}

\* C3: a request with an invalid type or a quantity <= 0 appends no
\* transaction and is not answered with success.
C3_RejectedBeforeMutation ==
    \A r \in DOMAIN requests :
        (/\ requests[r].pc # "idle"
         /\ \/ requests[r].type \notin
                   {"sale", "restock", "adjustment", "expiry", "damage", "purchase"}
            \/ requests[r].quantity <= 0) =>
            /\ requests[r].transactionId = 0
            /\ requests[r].status # 200

\* C4: the recorded delta of a request with quantity >= 1 is -quantity for
\* sale, expiry and damage and +quantity for every other accepted type, and
\* for any quantity the sign follows the type; a decrease larger than the
\* stock records newQuantity 0 and the request fails only if the store does.
C4_SignFromType ==
    \A r \in DOMAIN requests :
        requests[r].transactionId # 0 =>
            LET t == transactions[requests[r].transactionId]
                decrease == requests[r].type \in {"sale", "expiry", "damage"}
            IN  /\ requests[r].type \in
                       {"sale", "restock", "adjustment", "expiry", "damage", "purchase"}
                /\ t.type = requests[r].type
                /\ decrease => t.quantity <= 0
                /\ ~decrease => t.quantity >= 0
                /\ requests[r].quantity >= 1 =>
                       t.quantity = (IF decrease THEN -requests[r].quantity
                                     ELSE requests[r].quantity)
                /\ t.previousQuantity + t.quantity < 0 => t.newQuantity = 0
                /\ (requests[r].pc = "done" /\ requests[r].error # "store") =>
                       requests[r].status = 200

\* C4 witness: a damage larger than the stock has completed with success and
\* newQuantity 0
C4_Witness ==
    \E r \in DOMAIN requests :
        /\ requests[r].pc = "done"
        /\ requests[r].status = 200
        /\ requests[r].type = "damage"
        /\ requests[r].quantity >= 1
        /\ requests[r].previousQuantity > 0
        /\ requests[r].previousQuantity - requests[r].quantity < 0
        /\ transactions[requests[r].transactionId].newQuantity = 0
        /\ products[requests[r].productId].quantity = 0

\* C5: a stock change that stopped between its two writes (and nothing else
\* touched the product) does not leave the newest transaction's newQuantity
\* different from the stored quantity.
C5_NoTornWrite ==
    \A pid \in ProductIds :
        (/\ disturbed[pid] = {"fault"}
         /\ InFlightOn(pid, "none") = {}
         /\ Ledger(pid) # <<>>) =>
            products[pid].quantity = Last(Ledger(pid)).newQuantity

----------------------------------------------------------------------------
(* Claims about the detectors *)

\* the step in which pass d runs the detectors over the products it found
PassRuns(d) == passes[d].pc = "detect" /\ passes'[d].pc = "insert"

\* positions of the candidates of one type for one product in a batch
Candidates(batch, pid, type) ==
    {i \in DOMAIN batch : batch[i].productId = pid /\ batch[i].type = type}

\* the units unaccounted for: per transaction of the last 30 days, what the
\* transaction before it and its own delta give minus what it recorded, and
\* the last recorded quantity minus the stored one, each counted when above 2
UnitsUnaccounted(product, pid) ==
    LET txs == SelectSeq(transactions,
                   LAMBDA t : t.productId = pid /\ t.createdAt >= now - 30 * 24)
        missingAt(i) ==
            (IF i = 1 THEN txs[1].previousQuantity ELSE txs[i - 1].newQuantity)
                + txs[i].quantity - txs[i].newQuantity
        missingNow == txs[Len(txs)].newQuantity - product.quantity
    IN  IF txs = <<>> THEN 0
        ELSE SumSeq([i \in DOMAIN txs |-> IF missingAt(i) > 2 THEN missingAt(i) ELSE 0])
                 + (IF missingNow > 2 THEN missingNow ELSE 0)

EditedBelowLedger(pid) ==
    /\ Ledger(pid) # <<>>
    /\ "edit" \in disturbed[pid]
    /\ InFlightOn(pid, "none") = {}
    /\ products[pid].quantity = Last(Ledger(pid)).newQuantity - 10

\* C7: for a product edited to 10 units below what its transactions justify,
\* in a store that started without potential_theft anomalies, after the first
\* of consecutive undisturbed passes there is no potential_theft anomaly of
\* the product and after the second there is one.
C7_SecondPassCreates ==
    \A pid \in ProductIds :
        EditedBelowLedger(pid) =>
            /\ quietPasses = 1 =>
                   ~\E a \in DOMAIN anomalies :
                        anomalies[a].productId = pid /\ anomalies[a].type = "potential_theft"
            /\ quietPasses >= 2 =>
                   \E a \in DOMAIN anomalies :
                        anomalies[a].productId = pid /\ anomalies[a].type = "potential_theft"

\* C8: after a sale through the stock route and a direct edit to 10 units
\* below that sale's newQuantity, one completed undisturbed trigger leaves an
\* unresolved potential_theft anomaly of the product in the store.
C8_SingleRunDetects ==
    \A pid \in ProductIds :
        (/\ EditedBelowLedger(pid)
         /\ Last(Ledger(pid)).type = "sale"
         /\ quietPasses >= 1) =>
            ExistsUnresolved(pid, "potential_theft")

\* C9: for a product without an unresolved low_stock anomaly, a pass emits a
\* low_stock candidate exactly when quantity <= minimumStock, and the
\* candidate's severity is critical exactly when the quantity is 0, high
\* otherwise.
C9_LowStockIff ==
    [][\A d \in DOMAIN passes :
          PassRuns(d) =>
              \A pid \in DOMAIN passes[d].found :
                  (~\E a \in DOMAIN anomalies :
                       /\ anomalies[a].productId = pid
                       /\ anomalies[a].type = "low_stock"
                       /\ ~anomalies[a].resolved) =>
                      LET product == passes[d].found[pid]
                          emitted == Candidates(passes'[d].batch, pid, "low_stock")
                      IN  /\ emitted # {} <=> product.quantity <= product.minimumStock
                          /\ Cardinality(emitted) <= 1
                          /\ \A i \in emitted :
                                 /\ passes'[d].batch[i].severity = "critical"
                                        <=> product.quantity = 0
                                 /\ passes'[d].batch[i].severity = "high"
                                        <=> product.quantity # 0]_vars

\* C9 witness: after a direct edit of p1 below its minimum one undisturbed
\* trigger has left an unresolved critical low_stock anomaly of p1
C9_Witness ==
    /\ "edit" \in disturbed["p1"]
    /\ quietPasses >= 1
    /\ products["p1"].quantity = 0
    /\ products["p1"].quantity <= products["p1"].minimumStock
    /\ \E a \in DOMAIN anomalies :
           /\ anomalies[a].productId = "p1"
           /\ anomalies[a].type = "low_stock"
           /\ anomalies[a].severity = "critical"
           /\ ~anomalies[a].resolved

\* whole days, rounded up, in a number of hours
DaysRoundedUp(hours) ==
    CHOOSE days \in -40 .. 40 : (days - 1) * 24 < hours /\ hours <= days * 24

\* C10: for a product with an expiry date and no unresolved expiry_warning
\* anomaly, a pass emits an expiry_warning candidate exactly when
\* 0 < daysUntilExpiry <= 30 (days rounded up), with severity high exactly
\* when daysUntilExpiry <= 7 and medium otherwise; a product without an
\* expiry date, or already expired, gets none.
C10_ExpiryIff ==
    [][\A d \in DOMAIN passes :
          PassRuns(d) =>
              \A pid \in DOMAIN passes[d].found :
                  LET product == passes[d].found[pid]
                      emitted == Candidates(passes'[d].batch, pid, "expiry_warning")
                  IN  /\ product.expiryDate = <<>> => emitted = {}
                      /\ (product.expiryDate # <<>> /\ product.expiryDate[1] <= now) =>
                             emitted = {}
                      /\ (/\ product.expiryDate # <<>>
                          /\ ~\E a \in DOMAIN anomalies :
                                 /\ anomalies[a].productId = pid
                                 /\ anomalies[a].type = "expiry_warning"
                                 /\ ~anomalies[a].resolved) =>
                             LET days == DaysRoundedUp(product.expiryDate[1] - now)
                             IN  /\ emitted # {} <=> (0 < days /\ days <= 30)
                                 /\ Cardinality(emitted) <= 1
                                 /\ \A i \in emitted :
                                        /\ passes'[d].batch[i].severity = "high"
                                               <=> days <= 7
                                        /\ passes'[d].batch[i].severity = "medium"
                                               <=> days > 7]_vars

\* C10 witness: one pass has just emitted a high and a medium expiry_warning
\* candidate
C10_Witness ==
    \E d \in DOMAIN passes :
        /\ passes[d].pc = "insert"
        /\ \E i, j \in DOMAIN passes[d].batch :
               /\ passes[d].batch[i].type = "expiry_warning"
               /\ passes[d].batch[i].severity = "high"
               /\ passes[d].batch[j].type = "expiry_warning"
               /\ passes[d].batch[j].severity = "medium"

\* the magnitudes of the quantities of the transactions of some types
Magnitudes(txs, types) ==
    SumSeq([i \in DOMAIN txs |->
               IF txs[i].type \in types
               THEN (IF txs[i].quantity < 0 THEN -txs[i].quantity ELSE txs[i].quantity)
               ELSE 0])

C12_ShrinkageRecorded ==
    \A pid \in ProductIds :
        (/\ Len(Ledger(pid)) = 15
         /\ \A i \in DOMAIN Ledger(pid) :
                Ledger(pid)[i].type = "sale" /\ Ledger(pid)[i].quantity = -2
         /\ Ledger(pid)[1].previousQuantity = 200
         /\ products[pid].quantity = 200 - 15 * 2 - 5
         /\ quietPasses >= 1) =>
            ExistsUnresolved(pid, "inventory_shrinkage")

\* some actor other than 'system' has more than 10 of the transactions
ExcessiveActor(txs) ==
    \E i \in DOMAIN txs :
        /\ txs[i].userId # "system"
        /\ Cardinality({j \in DOMAIN txs : txs[j].userId = txs[i].userId}) > 10

\* more than 2 of the transactions fall in the hours 23, 0, 1, 2, 3, 4, 5
AfterHoursPattern(txs) ==
    Cardinality({j \in DOMAIN txs :
                    txs[j].createdAt % 24 \in {23, 0, 1, 2, 3, 4, 5}}) > 2

\* C13: a pass emits at most one unauthorized_access_pattern candidate per
\* product, and emits it exactly when a pattern fired over the product's
\* transactions of the trailing 7 days (more than 2 in the night hours, or
\* more than 10 by one actor other than 'system') and no
\* unauthorized_access_pattern anomaly of the product, resolved or not, was
\* recorded in the last 24 hours; the severity is high if the after-hours
\* pattern fired, else medium; and after 12 stock changes by one non-system
\* actor a completed undisturbed run leaves such an anomaly in the store.
C13_AccessIff ==
    /\ [][\A d \in DOMAIN passes :
             PassRuns(d) =>
                 \A pid \in DOMAIN passes[d].found :
                     LET txs == SelectSeq(transactions,
                                    LAMBDA t : t.productId = pid
                                               /\ t.createdAt >= now - 7 * 24)
                         recorded ==
                             \E a \in DOMAIN anomalies :
                                 /\ anomalies[a].productId = pid
                                 /\ anomalies[a].type = "unauthorized_access_pattern"
                                 /\ anomalies[a].createdAt >= now - 24
                         emitted ==
                             Candidates(passes'[d].batch, pid, "unauthorized_access_pattern")
                     IN  /\ emitted # {} <=>
                                ((AfterHoursPattern(txs) \/ ExcessiveActor(txs)) /\ ~recorded)
                         /\ Cardinality(emitted) <= 1
                         /\ \A i \in emitted :
                                passes'[d].batch[i].severity =
                                    (IF AfterHoursPattern(txs) THEN "high" ELSE "medium")]_vars
    /\ [](\A pid \in ProductIds :
             (ExcessiveActor(Ledger(pid)) /\ quietPasses >= 1) =>
                 \E a \in DOMAIN anomalies :
                     /\ anomalies[a].productId = pid
                     /\ anomalies[a].type = "unauthorized_access_pattern")

\* C13 witness: from a store without anomalies, 12 sales by one non-system
\* actor and one completed undisturbed run have left an unresolved
\* unauthorized_access_pattern anomaly of severity medium
C13_Witness ==
    /\ Len(Ledger("p1")) = 12
    /\ ExcessiveActor(Ledger("p1"))
    /\ quietPasses >= 1
    /\ Len(anomalies) = 1
    /\ anomalies[1].type = "unauthorized_access_pattern"
    /\ anomalies[1].severity = "medium"
    /\ anomalies[1].createdAt >= 0
    /\ ~anomalies[1].resolved

\* the newest transaction of the product in the last 24 hours, as a sequence
\* of at most one
LastOfDay(pid) ==
    LET txs == SelectSeq(transactions,
                   LAMBDA t : t.productId = pid /\ t.createdAt >= now - 24)
    IN  IF txs = <<>> THEN <<>> ELSE <<txs[Len(txs)]>>

\* products priced above 100 with a transaction in the last 24 hours and a
\* quantity below that transaction's newQuantity
Qualifying ==
    {pid \in ProductIds :
        /\ products[pid].price > 100
        /\ LastOfDay(pid) # <<>>
        /\ products[pid].quantity < LastOfDay(pid)[1].newQuantity}

\* C14: a pass emits an organized_theft_pattern candidate exactly when at
\* least 3 products priced above 100 each have a transaction in the last 24
\* hours and a quantity lower than their last transaction's newQuantity; the
\* candidate has no product, severity critical, and a total value equal to
\* the sum of discrepancy x price over those products.
C14_OrganizedIff ==
    [][\A d \in DOMAIN passes :
          PassRuns(d) =>
              LET emitted == {i \in DOMAIN passes'[d].batch :
                                 passes'[d].batch[i].type = "organized_theft_pattern"}
              IN  /\ emitted # {} <=> Cardinality(Qualifying) >= 3
                  /\ Cardinality(emitted) <= 1
                  /\ \A i \in emitted :
                         /\ passes'[d].batch[i].productId = "null"
                         /\ passes'[d].batch[i].severity = "critical"
                         /\ passes'[d].batch[i].metadata.totalValue =
                                SumSeq([k \in DOMAIN ProductOrder |->
                                    IF ProductOrder[k] \in Qualifying
                                    THEN (LastOfDay(ProductOrder[k])[1].newQuantity
                                              - products[ProductOrder[k]].quantity)
                                             * products[ProductOrder[k]].price
                                    ELSE 0])]_vars

\* C14 witness: a pass has just emitted an organized_theft_pattern candidate
C14_Witness ==
    \E d \in DOMAIN passes :
        /\ passes[d].pc = "insert"
        /\ \E i \in DOMAIN passes[d].batch :
               passes[d].batch[i].type = "organized_theft_pattern"

\* C15: when detection passes run one after another, the store never holds
\* two unresolved low_stock anomalies, nor two unresolved expiry_warning
\* anomalies, of the same product.
C15_NoDuplicateWarnings ==
    \A a, b \in DOMAIN anomalies :
        (/\ a # b
         /\ anomalies[a].productId = anomalies[b].productId
         /\ anomalies[a].type = anomalies[b].type
         /\ anomalies[a].type \in {"low_stock", "expiry_warning"}) =>
            (anomalies[a].resolved \/ anomalies[b].resolved)

\* C15 witness: two undisturbed passes in a row have completed over a product
\* that has an unresolved low_stock and an unresolved expiry_warning anomaly
C15_Witness ==
    /\ quietPasses >= 2
    /\ \E pid \in ProductIds :
           /\ products[pid].quantity <= products[pid].minimumStock
           /\ ExistsUnresolved(pid, "low_stock")
           /\ ExistsUnresolved(pid, "expiry_warning")

----------------------------------------------------------------------------
(* Claims about the alerts and the trigger as a whole *)

\* C16: no two security alerts of the same product have creation times
\* within the 2-hour cooldown of each other, also when the product has
\* several anomalies eligible for an alert in a single run.
C16_AlertCooldown ==
    \A i, j \in DOMAIN alerts :
        (/\ i # j
         /\ alerts[i].type = "security"
         /\ alerts[j].type = "security"
         /\ alerts[i].productId = alerts[j].productId) =>
            Abs(alerts[i].createdAt - alerts[j].createdAt) >= 2

\* the step in which pass d generates its alerts
AlertsRun(d) == passes[d].pc = "alerts" /\ passes'[d].pc = "done"

\* C19: a run of the alert generator creates an alert only for an anomaly
\* that is unresolved at the time of the run: every alert it adds is that of
\* an unresolved anomaly of the alert's product, of the type in its title.
C19_AlertsOnlyUnresolved ==
    [][\A d \in DOMAIN passes :
          AlertsRun(d) =>
              \A k \in DOMAIN alerts' \ DOMAIN alerts :
                  \E a \in DOMAIN anomalies :
                      /\ ~anomalies[a].resolved
                      /\ anomalies[a].productId = alerts'[k].productId
                      /\ AlertTitle(anomalies[a].type) = alerts'[k].title]_vars

\* a step of pass d that may write to the store
PassWrites(d) ==
    \/ passes[d].pc = "insert" /\ passes'[d].pc = "alerts"
    \/ passes[d].pc = "alerts" /\ passes'[d].pc = "done"

C18_BatchPersisted ==
    \A d \in DOMAIN passes :
        passes[d].pc \in {"alerts", "done"} =>
            \A i \in DOMAIN passes[d].batch :
                \E a \in DOMAIN anomalies :
                    /\ anomalies[a].productId = passes[d].batch[i].productId
                    /\ anomalies[a].type = passes[d].batch[i].type
                    /\ anomalies[a].severity = passes[d].batch[i].severity

\* C20: detectAnomalies hands no error to its caller: a pass whose listing of
\* the products fails, or whose bulk write fails, goes on to the alert
\* generation with an empty list as its result, like a pass that found
\* nothing; a non-empty result is the batch, and the batch is then stored.
C20_ErrorsSwallowed ==
    [][\A d \in DOMAIN passes :
          /\ (passes[d].pc = "idle" /\ passes'[d].pc # "idle") =>
                 \/ passes'[d].pc = "detect"
                 \/ passes'[d].pc = "alerts" /\ passes'[d].returned = <<>>
          /\ (passes[d].pc = "insert" /\ passes'[d].pc # "insert") =>
                 /\ passes'[d].pc = "alerts"
                 /\ \/ /\ passes'[d].returned = passes[d].batch
                       /\ anomalies' = anomalies \o
                              [i \in DOMAIN passes[d].batch |->
                                  StoredAnomaly(passes[d].batch[i])]
                    \/ passes'[d].returned = <<>>]_vars

\* C20 witness: the bulk write of a valid, non-empty batch has failed and the
\* pass has completed with an empty result
C20_Witness ==
    \E d \in DOMAIN passes :
        /\ passes[d].pc = "done"
        /\ passes[d].batch # <<>>
        /\ \A i \in DOMAIN passes[d].batch : AnomalyValid(passes[d].batch[i])
        /\ passes[d].returned = <<>>
        /\ \A i \in DOMAIN passes[d].batch :
               ~\E a \in DOMAIN anomalies :
                    /\ anomalies[a].productId = passes[d].batch[i].productId
                    /\ anomalies[a].type = passes[d].batch[i].type

----------------------------------------------------------------------------
(* Claims about failures inside the detectors *)

DetectorOf(type) ==
    CASE type = "low_stock" -> "detectLowStock"
      [] type = "expiry_warning" -> "detectExpiryWarnings"
      [] type = "potential_theft" -> "detectPotentialTheft"
      [] type = "inventory_shrinkage" -> "detectShrinkagePatterns"
      [] type = "unauthorized_access_pattern" -> "detectUnauthorizedAccess"
      [] OTHER -> "detectSystemwideTheftPatterns"

\* the candidates of batch that the failure of `failed` cannot have removed
Unaffected(batch, failed) ==
    SelectSeq(batch, LAMBDA candidate :
        <<candidate.productId, DetectorOf(candidate.type)>> \notin failed)

\* C21 (isolation): a pass in which one detector failed for one product
\* still collects every candidate of the other detectors and products
C21_OthersCollected ==
    [][\A d \in DOMAIN passes :
          (PassRuns(d) /\ passes'[d].failed # {}) =>
              passes'[d].batch =
                  Unaffected(DetectAll(passes[d].found), passes'[d].failed)]_vars

\* C21: when a store call failed inside one detector for one product, the
\* candidates of every other detector and of every other product are
\* returned by the pass and persisted
C21_OthersPersisted ==
    [][\A d \in DOMAIN passes :
          (passes[d].pc = "insert" /\ passes'[d].pc = "alerts"
                /\ passes[d].failed # {}) =>
              /\ passes'[d].returned = passes[d].batch
              /\ \A i \in DOMAIN passes[d].batch :
                    \E id \in DOMAIN anomalies' \ DOMAIN anomalies :
                        anomalies'[id] = StoredAnomaly(passes[d].batch[i])]_vars
----------------------------------------------------------------------------
(* Claims about overlapping detection passes *)

\* the unresolved low_stock anomalies of a product in a store
UnresolvedLowStock(store, pid) ==
    {id \in DOMAIN store : /\ store[id].productId = pid
                           /\ store[id].type = "low_stock"
                           /\ ~store[id].resolved}

\* C22: detection passes are not serialized. A pass that ran alone (no other
\* pass in flight and no write between its start and its bulk write) never
\* adds a second unresolved low_stock anomaly for a product; two overlapping
\* passes can both find none and both persist one (C22_Witness).
C22_DuplicatesOnlyByOverlap ==
    [][\A d \in DOMAIN passes : \A pid \in ProductIds :
          (/\ passes[d].pc = "insert" /\ passes'[d].pc = "alerts"
           /\ passes[d].alone
           /\ Cardinality(UnresolvedLowStock(anomalies', pid)) >
                  Cardinality(UnresolvedLowStock(anomalies, pid))) =>
              Cardinality(UnresolvedLowStock(anomalies', pid)) = 1]_vars

\* two passes are past their bulk write, each returned a low_stock candidate
\* for p1, and the store holds two unresolved low_stock anomalies for p1
C22_Witness ==
    /\ \A d \in OverlapPassIds :
          /\ passes[d].pc \in {"alerts", "done"}
          /\ Candidates(passes[d].returned, "p1", "low_stock") # {}
    /\ Cardinality(UnresolvedLowStock(anomalies, "p1")) >= 2
----------------------------------------------------------------------------
(* Claims about the stock-change route and the bulk write under failures *)

\* C23: when the bulk write of a pass's anomalies fails (the store rejects
\* it and nothing of the batch is written), the candidates detected in
\* memory are still returned to the caller of the pass.
C23_FailureReturnsBatch ==
    [][\A d \in DOMAIN passes :
          (/\ passes[d].pc = "insert" /\ passes'[d].pc = "alerts"
           /\ passes[d].batch # <<>>
           /\ anomalies' = anomalies) =>
              passes'[d].returned = passes[d].batch]_vars
\* the request's handler answers in this step
Answers(r) == requests[r].pc # "done" /\ requests'[r].pc = "done"

\* C24: the stock-change operation never reports success when a write
\* failed. An answer of success means that the request's transaction is in
\* the ledger and the product holds its newQuantity; a request for a missing
\* product id writes nothing and is answered 404 "Product not found"; every
\* other answer is an error response (400 with a message).
C24_NoSuccessOnFailedWrite ==
    [][\A r \in DOMAIN requests :
          Answers(r) =>
              LET answer == requests'[r]
              IN  /\ answer.status \in {200, 400, 404}
                  /\ answer.status = 200 =>
                        /\ answer.productId \in ProductIds
                        /\ answer.transactionId \in DOMAIN transactions'
                        /\ transactions'[answer.transactionId].productId = answer.productId
                        /\ transactions'[answer.transactionId].newQuantity = answer.newQuantity
                        /\ products'[answer.productId].quantity = answer.newQuantity
                  /\ answer.productId \notin ProductIds =>
                        /\ answer.status = 404
                        /\ answer.error = "Product not found"
                        /\ transactions' = transactions
                        /\ products' = products
                  /\ answer.status = 404 => answer.productId \notin ProductIds
                  /\ answer.status = 400 =>
                        /\ answer.error # IdleRequest.error
                        /\ products' = products]_vars

\* the save of the product was rejected after the transaction was written,
\* and the request is answered with an error
C24_Witness ==
    \E r \in DOMAIN requests :
        /\ requests[r].pc = "done"
        /\ requests[r].status = 400
        /\ requests[r].error = "store"
        /\ requests[r].transactionId \in DOMAIN transactions
        /\ products[requests[r].productId].quantity # requests[r].newQuantity
----------------------------------------------------------------------------
(* Claims about the potential_theft computation *)

\* the 30-day ledger of a product, in creation order
RecentLedger(pid) ==
    SelectSeq(transactions,
              LAMBDA t : t.productId = pid /\ t.createdAt >= now - 30 * 24)

\* C25: for a product with transactions in the last 30 days, the totalLoss
\* of detectPotentialTheft is the sum over those transactions of
\* (expected - newQuantity) where that exceeds 2 - expected being the
\* newQuantity of the transaction before (the first one's previousQuantity
\* for the first) plus the signed delta - plus (last newQuantity - live
\* quantity) where that exceeds 2; it is what an emitted potential_theft
\* candidate reports as totalUnitsLost.
C25_TotalLossIsSum ==
    [][\A d \in DOMAIN passes :
          PassRuns(d) =>
              \A pid \in DOMAIN passes[d].found :
                  /\ RecentLedger(pid) # <<>> =>
                        TotalLoss(UnexplainedLosses(passes[d].found[pid],
                                                    RecentLedger(pid)))
                            = UnitsUnaccounted(passes[d].found[pid], pid)
                  /\ \A i \in Candidates(passes'[d].batch, pid, "potential_theft") :
                        passes'[d].batch[i].metadata.totalUnitsLost
                            = UnitsUnaccounted(passes[d].found[pid], pid)]_vars

\* a pass has just emitted a potential_theft candidate for p1 over a 30-day
\* ledger of three transactions in which the second fell short by more than
\* 2 and the third did not, with the live quantity 3 below the last record
C25_Witness ==
    /\ passes["d1"].pc = "insert"
    /\ Len(RecentLedger("p1")) = 3
    /\ RecentLedger("p1")[1].newQuantity - 3 - RecentLedger("p1")[2].newQuantity > 2
    /\ RecentLedger("p1")[2].newQuantity - 3 - RecentLedger("p1")[3].newQuantity <= 2
    /\ RecentLedger("p1")[3].newQuantity - passes["d1"].found["p1"].quantity = 3
    /\ \E i \in Candidates(passes["d1"].batch, "p1", "potential_theft") :
          passes["d1"].batch[i].metadata.totalUnitsLost = 6
\* what transaction i of a ledger recorded below the quantity that the
\* transaction before it and its own delta give
Shortfall(txs, i) ==
    (IF i = 1 THEN txs[1].previousQuantity ELSE txs[i - 1].newQuantity)
        + txs[i].quantity - txs[i].newQuantity

\* the number of loss entries of a product: transactions of the 30-day
\* ledger short by more than 2, and the live quantity if short by more than 2
LossEntries(product, pid) ==
    Cardinality({i \in DOMAIN RecentLedger(pid) : Shortfall(RecentLedger(pid), i) > 2})
        + (IF Last(RecentLedger(pid)).newQuantity - product.quantity > 2 THEN 1 ELSE 0)

\* a loss entry dated within the last 7 days: a short transaction created
\* in them, or the live shortfall (dated now)
RecentLossExists(product, pid) ==
    \/ \E i \in DOMAIN RecentLedger(pid) :
          /\ Shortfall(RecentLedger(pid), i) > 2
          /\ RecentLedger(pid)[i].createdAt > now - 7 * 24
    \/ Last(RecentLedger(pid)).newQuantity - product.quantity > 2

\* C26: every emitted potential_theft candidate has severity critical if
\* totalLoss x price > 500, otherwise high if totalLoss > 10, otherwise
\* medium, and a confidence (in hundredths) of 50 plus 10 for each of: more
\* than 2 loss entries, more than 5 loss entries, totalLoss > 10, totalLoss >
\* 25, a loss dated within the last 7 days - capped at 95, hence in 50 .. 95.
C26_SeverityAndConfidence ==
    [][\A d \in DOMAIN passes :
          PassRuns(d) =>
              \A pid \in DOMAIN passes[d].found :
                  \A i \in Candidates(passes'[d].batch, pid, "potential_theft") :
                      LET product == passes[d].found[pid]
                          candidate == passes'[d].batch[i]
                          totalLoss == UnitsUnaccounted(product, pid)
                          entries == LossEntries(product, pid)
                          raises == {<<1, entries > 2>>, <<2, entries > 5>>,
                                     <<3, totalLoss > 10>>, <<4, totalLoss > 25>>,
                                     <<5, RecentLossExists(product, pid)>>}
                          met == Cardinality({r \in raises : r[2]})
                      IN  /\ candidate.severity =
                                IF totalLoss * product.price > 500 THEN "critical"
                                ELSE IF totalLoss > 10 THEN "high" ELSE "medium"
                          /\ candidate.aiConfidence =
                                IF 50 + 10 * met > 95 THEN 95 ELSE 50 + 10 * met
                          /\ candidate.aiConfidence >= 50
                          /\ candidate.aiConfidence <= 95
                          /\ candidate.metadata.discrepancyCount = entries]_vars

\* a pass has just emitted a potential_theft candidate for which all five
\* raises apply: its confidence is the cap
C26_Witness ==
    /\ passes["d1"].pc = "insert"
    /\ \E i \in Candidates(passes["d1"].batch, "p1", "potential_theft") :
          /\ passes["d1"].batch[i].metadata.discrepancyCount > 5
          /\ passes["d1"].batch[i].metadata.totalUnitsLost > 25
          /\ passes["d1"].batch[i].aiConfidence = 95
          /\ passes["d1"].batch[i].severity = "high"
----------------------------------------------------------------------------
(* Claims about the stored alerts *)

\* C27: every alert that a run of the alert generator stores has type
\* security and severity error, and some anomaly of the store is its source:
\* the title is built from that anomaly's type, the product is that
\* anomaly's, and the stored metadata carries that anomaly's id and
\* confidence.
C27_StoredAlertShape ==
    [][\A d \in DOMAIN passes :
          AlertsRun(d) =>
              \A k \in DOMAIN alerts' \ DOMAIN alerts :
                  /\ alerts'[k].type = "security"
                  /\ alerts'[k].severity = "error"
                  /\ \E id \in DOMAIN anomalies :
                        /\ alerts'[k].title = AlertTitle(anomalies[id].type)
                        /\ alerts'[k].productId = anomalies[id].productId
                        /\ "metadata" \in DOMAIN alerts'[k]
                        /\ alerts'[k].metadata.anomalyId = id
                        /\ alerts'[k].metadata.confidence = anomalies[id].aiConfidence]_vars

\* the part of C27 that the stored documents do satisfy
C27_StoredAlertShape_NoMetadata ==
    [][\A d \in DOMAIN passes :
          AlertsRun(d) =>
              \A k \in DOMAIN alerts' \ DOMAIN alerts :
                  /\ alerts'[k].type = "security"
                  /\ alerts'[k].severity = "error"
                  /\ \E id \in DOMAIN anomalies :
                        /\ alerts'[k].title = AlertTitle(anomalies[id].type)
                        /\ alerts'[k].productId = anomalies[id].productId]_vars
----------------------------------------------------------------------------
(* Claims about resolution *)

\* the anomalies of one type of a product, resolved or not
Recorded(pid, type) ==
    {a \in DOMAIN anomalies : anomalies[a].productId = pid /\ anomalies[a].type = type}

\* every anomaly of the type recorded for the product is resolved, and there
\* is one
AllResolved(pid, type) ==
    /\ Recorded(pid, type) # {}
    /\ \A a \in Recorded(pid, type) : anomalies[a].resolved

----------------------------------------------------------------------------
(* Claims about the reach of potential_theft *)

C30_NoLossWithoutDisturbance ==
    [][\A d \in DOMAIN passes :
          PassRuns(d) =>
              \A pid \in DOMAIN passes[d].found :
                  (disturbed[pid] = {} /\ RecentLedger(pid) # <<>>) =>
                      /\ UnexplainedLosses(passes[d].found[pid], RecentLedger(pid)) = <<>>
                      /\ UnitsUnaccounted(passes[d].found[pid], pid) = 0]_vars

\* C30 for the passes that overlap no stock change: the pass started with
\* no other handler's write since, and no request on the product is between
\* its two writes
C30_NoLossWhenAlone ==
    [][\A d \in DOMAIN passes :
          PassRuns(d) =>
              \A pid \in DOMAIN passes[d].found :
                  (/\ disturbed[pid] = {} /\ RecentLedger(pid) # <<>>
                   /\ passes[d].alone
                   /\ \A r \in DOMAIN requests :
                         ~(requests[r].pc = "saveProduct" /\ requests[r].productId = pid)) =>
                      /\ UnexplainedLosses(passes[d].found[pid], RecentLedger(pid)) = <<>>
                      /\ UnitsUnaccounted(passes[d].found[pid], pid) = 0]_vars
====
